---- MODULE Spec2Model ----
(***************************************************************************)
(* Model of src/src/PredictedProcess.ts: PredictedProcess (run, memoize)   *)
(* and PredictedProcessesManager (addProcess, removeProcess, runAll).      *)
(*                                                                         *)
(* The program runs on one event loop.  Every action below is one          *)
(* synchronous piece of code: a call made by the user (the constructors,   *)
(* run, memoize, addProcess, removeProcess, runAll, and abort() of an      *)
(* AbortController) or one event delivered by a child process ('exit',     *)
(* 'close', 'error'), together with the promise reactions that the event   *)
(* loop drains right after it.                                             *)
(* The child processes are the environment: a spawned child may report an  *)
(* error or any exit status at any time, whether or not it was sent a      *)
(* signal.  spawn() either returns a handle, and then launch failures       *)
(* arrive as 'error' events, or throws (a command it rejects, an error of  *)
(* the system it does not turn into an event).                             *)
(***************************************************************************)
EXTENDS Integers, Sequences, FiniteSets, TLC

\* ---------------------------------------------------------------- bounds
MaxTasks == 2        \* PredictedProcess objects ever constructed
MaxCalls == 2        \* calls of PredictedProcess.run, over all tasks
MaxBatches == 1      \* calls of PredictedProcessesManager.runAll
MaxGroup == 2        \* length of the manager's _processes
MaxProcs == 2        \* child processes ever spawned, by run and by runAll

\* ------------------------------------------------------------ vocabulary
NoSignal == 0                       \* run() / runAll() called without a signal
NoChild == 0                        \* _childProcess === null
NullCode == 0 - 1                   \* exit code null
NullSig == "null"                   \* exit signal null
Signals == {1}                      \* the AbortSignal objects
TaskIds == {1, 2}                   \* the ids given to the constructor
Commands == {"cmd"}                 \* the commands given to the constructor
ExitCodes == {0, 1}                 \* the exit codes a child reports
ChildSignals == {"SIGABRT", "SIGTERM"}   \* the signals that terminate a child

\* What a child can report on 'exit' / 'close': an exit code, a signal that
\* terminated it, or neither.
ExitStatuses ==
  {<<c, NullSig>> : c \in ExitCodes} \cup
  {<<NullCode, sg>> : sg \in ChildSignals} \cup
  {<<NullCode, NullSig>>}

\* What the 'close' listener of runAll() reads of the exit status: the code.
CloseCodes == ExitCodes \cup {NullCode}

VARIABLES
  tasks,       \* the PredictedProcess objects: id, command, _isRunning, _childProcess
  calls,       \* per task object, the calls of run() made on it so far, each with
               \* its outcome and the child process it spawned
  processes,   \* PredictedProcessesManager._processes: sequence of task objects
  aborted,     \* AbortSignal.aborted, per signal
  batches      \* the calls of runAll() made so far, each with its outcome and
               \* the child processes it spawned

vars == <<tasks, calls, processes, aborted, batches>>

\* ------------------------------------------------------------- outcomes
Pending == [kind |-> "pending", code |-> NullCode, signal |-> NullSig]
Success == [kind |-> "success", code |-> NullCode, signal |-> NullSig]
AlreadyCancelled == [kind |-> "AlreadyCancelled", code |-> NullCode, signal |-> NullSig]
AlreadyRunning == [kind |-> "AlreadyRunning", code |-> NullCode, signal |-> NullSig]
LaunchError == [kind |-> "LaunchError", code |-> NullCode, signal |-> NullSig]
ProcessAborted(signal) == [kind |-> "ProcessAborted", code |-> NullCode, signal |-> signal]
ProcessFailed(code) == [kind |-> "ProcessFailed", code |-> code, signal |-> NullSig]

\* ------------------------------------------------------- PredictedProcess

\* new PredictedProcess(id, command); memoized tells the objects made by
\* memoize() from the ones made by the user
NewTaskObject(id, command, memoized) ==
  [id |-> id, command |-> command, isRunning |-> FALSE,
   childProcess |-> NoChild, memoized |-> memoized]

\* run() without the check of signal.aborted
SignalAbortedUnchecked(s) == FALSE

\* if (signal && signal.aborted)
SignalAborted(s) == s # NoSignal /\ aborted[s]

\* run() without the check of _isRunning
IsRunningUnchecked(t) == FALSE

\* if (this._isRunning)
IsRunning(t) == tasks[t].isRunning

\* the classification made by onExit
ExitOutcome(code, signal) ==
  IF code = 0 THEN Success
  ELSE IF signal = "SIGABRT" \/ signal = NullSig THEN ProcessAborted(signal)
  ELSE ProcessFailed(code)

\* resolve() / reject() of a promise that may already be settled
Settle(current, outcome) == IF current.kind = "pending" THEN outcome ELSE current

\* a call of run() that spawned no child: it threw, or spawn() threw
Thrown(s, outcome) ==
  [signal |-> s, outcome |-> outcome, child |-> "none", listeners |-> FALSE,
   onAbort |-> FALSE, killed |-> "none"]

\* a call of run() that spawned its child: 'exit' and 'error' listeners on the
\* child, and the abort listener on the signal when one was passed
Spawned(s) ==
  [signal |-> s, outcome |-> Pending, child |-> "running", listeners |-> TRUE,
   onAbort |-> (s # NoSignal), killed |-> "none"]

\* this._childProcess?.removeAllListeners()
RemoveAllListeners(cs, h) ==
  IF h = NoChild THEN cs ELSE [cs EXCEPT ![h].listeners = FALSE]

\* onExit: cleanup, then resolve or reject
OnExit(cs, h, c, code, signal) ==
  [RemoveAllListeners(cs, h) EXCEPT ![c].outcome = Settle(@, ExitOutcome(code, signal))]

\* the fields of the task after the cleanup of onExit
CleanedUp(task) == [task EXCEPT !.childProcess = NoChild, !.isRunning = FALSE]

\* the 'error' listener of run(): reject(error)
OnError(call) == [call EXCEPT !.outcome = Settle(@, LaunchError)]

\* an onAbort that also rejects the promise
OnAbortRejects(call) ==
  [call EXCEPT !.killed = "SIGABRT", !.outcome = Settle(@, ProcessAborted("SIGABRT"))]

\* onAbort: childProcess.kill('SIGABRT')
OnAbort(call) == [call EXCEPT !.killed = "SIGABRT"]

RECURSIVE Sum(_, _)
Sum(f, n) == IF n = 0 THEN 0 ELSE f[n] + Sum(f, n - 1)

\* the number of calls of run() made so far
TotalCalls == Sum([t \in DOMAIN calls |-> Len(calls[t])], Len(calls))

\* the number of children spawned so far by run(), plus the number of calls
\* of spawn() made by runAll()
TotalProcs ==
  Sum([t \in DOMAIN calls |->
         Cardinality({c \in DOMAIN calls[t] : calls[t][c].child # "none"})], Len(calls))
  + Sum([b \in DOMAIN batches |-> Len(batches[b].children)], Len(batches))

\* ------------------------------------------------ runAll: promises, errors

\* a runAll() that kills the child at once when the signal is already aborted
BatchChildKilledAtOnce(t, s, launched) ==
  [task |-> t, state |-> IF launched THEN "running" ELSE "none",
   onAbort |-> (launched /\ s # NoSignal), errored |-> FALSE,
   killed |-> IF launched /\ s # NoSignal /\ aborted[s] THEN "SIGTERM" ELSE "none",
   promise |-> "pending", exitCode |-> NullCode]

\* the promise made by runAll() for task object t.  When spawn() returned:
\* the child, its 'close' and 'error' listeners, and an abort listener on the
\* signal when one was passed.  When spawn() threw: the executor stopped
\* there, no child, no listener, and a promise that nothing settles.
BatchChild(t, s, launched) ==
  [task |-> t, state |-> IF launched THEN "running" ELSE "none",
   onAbort |-> (launched /\ s # NoSignal), errored |-> FALSE, killed |-> "none",
   promise |-> "pending", exitCode |-> NullCode]

\* the Error objects that reject the promise of one child
ExitCause(id, code) == [kind |-> "exit", task |-> id, code |-> code]
ErrorCause == [kind |-> "error", task |-> 0, code |-> NullCode]
AbortCause == [kind |-> "abort", task |-> 0, code |-> NullCode]

\* resolve() of the promise at position i
ResolveAt(b, i) ==
  IF b.children[i].promise = "pending"
  THEN [b EXCEPT !.children[i].promise = "resolved"]
  ELSE b

\* reject(cause) of the promise at position i, and the reaction
\* promise.catch((error) => errors.push(error))
RejectAt(b, i, cause) ==
  IF b.children[i].promise = "pending"
  THEN [b EXCEPT !.children[i].promise = "rejected", !.errors = Append(@, cause)]
  ELSE b

\* a 'close' listener that resolves whatever the exit code
OnCloseResolves(b, i, code) == ResolveAt(b, i)

\* the 'close' listener
OnClose(b, i, code) ==
  IF code = 0 THEN ResolveAt(b, i) ELSE RejectAt(b, i, ExitCause(tasks[b.children[i].task].id, code))

\* an abort listener that rejects without kill()
OnAbortAtRejectOnly(b, i) == RejectAt(b, i, AbortCause)

\* the abort listener of the child at position i: kill(), then reject
OnAbortAt(b, i) ==
  RejectAt([b EXCEPT !.children[i].killed = "SIGTERM"], i, AbortCause)

\* the abort listeners of one runAll() call, run in order of registration
RECURSIVE OnAbortFrom(_, _)
OnAbortFrom(b, i) ==
  IF i > Len(b.children) THEN b
  ELSE OnAbortFrom(IF b.children[i].onAbort THEN OnAbortAt(b, i) ELSE b, i + 1)

\* Promise.all(...) in place of Promise.allSettled(...): settled when every
\* promise is resolved or one is rejected
AllOrFirstRejected(children) ==
  \/ \A i \in DOMAIN children : children[i].promise = "resolved"
  \/ \E i \in DOMAIN children : children[i].promise = "rejected"

\* Promise.allSettled(...): every promise has settled
AllSettled(children) == \A i \in DOMAIN children : children[i].promise # "pending"

\* the code after the await: runAll returns, or throws when errors is not empty
Deliver(b) ==
  IF b.outcome = "pending" /\ AllSettled(b.children)
  THEN [b EXCEPT !.outcome = IF Len(b.errors) > 0 THEN "BatchFailed" ELSE "success"]
  ELSE b

\* ---------------------------------------------------------------- actions
Init ==
  /\ tasks = <<>>
  /\ calls = <<>>
  /\ processes = <<>>
  /\ aborted = [s \in Signals |-> FALSE]
  /\ batches = <<>>

NewTask(id, command) ==
  /\ Len(tasks) < MaxTasks
  /\ tasks' = Append(tasks, NewTaskObject(id, command, FALSE))
  /\ calls' = Append(calls, <<>>)
  /\ UNCHANGED <<processes, aborted, batches>>

Memoize(t) ==
  /\ Len(tasks) < MaxTasks
  /\ tasks' = Append(tasks, NewTaskObject(tasks[t].id, tasks[t].command, TRUE))
  /\ calls' = Append(calls, <<>>)
  /\ UNCHANGED <<processes, aborted, batches>>

\* run(signal); launched tells whether spawn() returned.  When it throws, the
\* executor of the promise stops there and the promise is rejected with what
\* spawn() threw: _isRunning is already true, _childProcess is not yet set.
Run(t, s, launched) ==
  /\ TotalCalls < MaxCalls
  /\ IF SignalAborted(s)
     THEN /\ calls' = [calls EXCEPT ![t] = Append(@, Thrown(s, AlreadyCancelled))]
          /\ UNCHANGED tasks
     ELSE IF IsRunning(t)
     THEN /\ calls' = [calls EXCEPT ![t] = Append(@, Thrown(s, AlreadyRunning))]
          /\ UNCHANGED tasks
     ELSE IF launched
     THEN /\ TotalProcs < MaxProcs
          /\ tasks' = [tasks EXCEPT ![t].isRunning = TRUE,
                                    ![t].childProcess = Len(calls[t]) + 1]
          /\ calls' = [calls EXCEPT ![t] = Append(@, Spawned(s))]
     ELSE /\ tasks' = [tasks EXCEPT ![t].isRunning = TRUE]
          /\ calls' = [calls EXCEPT ![t] = Append(@, Thrown(s, LaunchError))]
  /\ UNCHANGED <<processes, aborted, batches>>

\* 'exit' of the child spawned by call c of task t, with the exit status
\* <<code, signal>>: onExit, then the listener that removes the abort listener
ChildExit(t, c, code, signal) ==
  /\ calls[t][c].child = "running"
  /\ IF calls[t][c].listeners
     THEN /\ calls' = [calls EXCEPT ![t] =
                         [OnExit(@, tasks[t].childProcess, c, code, signal)
                            EXCEPT ![c].child = "exited", ![c].onAbort = FALSE]]
          /\ tasks' = [tasks EXCEPT ![t] = CleanedUp(@)]
     ELSE /\ calls' = [calls EXCEPT ![t][c].child = "exited"]
          /\ UNCHANGED tasks
  /\ UNCHANGED <<processes, aborted, batches>>

\* 'error' of the child spawned by call c of task t
ChildError(t, c) ==
  /\ calls[t][c].child = "running"
  /\ calls[t][c].listeners
  /\ calls' = [calls EXCEPT ![t][c] = OnError(@)]
  /\ UNCHANGED <<tasks, processes, aborted, batches>>

\* abort() of the controller of signal s: every abort listener registered on
\* the signal is called
Abort(s) ==
  /\ ~aborted[s]
  /\ aborted' = [aborted EXCEPT ![s] = TRUE]
  /\ calls' = [t \in DOMAIN calls |->
                [c \in DOMAIN calls[t] |->
                  IF calls[t][c].signal = s /\ calls[t][c].onAbort
                  THEN OnAbort(calls[t][c]) ELSE calls[t][c]]]
  /\ batches' = [b \in DOMAIN batches |->
                  IF batches[b].signal = s
                  THEN Deliver(OnAbortFrom(batches[b], 1)) ELSE batches[b]]
  /\ UNCHANGED <<tasks, processes>>

\* ---------------------------------------------- PredictedProcessesManager

AddProcess(t) ==
  /\ Len(processes) < MaxGroup
  /\ processes' = Append(processes, t)
  /\ UNCHANGED <<tasks, calls, aborted, batches>>

\* a removeProcess() that removes the first task with that id only
RemoveFirstProcess(id) ==
  /\ processes' = [i \in 1..(Len(processes) -
                              IF \E j \in DOMAIN processes : tasks[processes[j]].id = id
                              THEN 1 ELSE 0) |->
                     IF \E j \in 1..i : tasks[processes[j]].id = id
                     THEN processes[i + 1] ELSE processes[i]]
  /\ UNCHANGED <<tasks, calls, aborted, batches>>

RemoveProcess(id) ==
  /\ processes' = SelectSeq(processes, LAMBDA t : tasks[t].id # id)
  /\ UNCHANGED <<tasks, calls, aborted, batches>>

\* the promises made by one call of runAll(), one for each position of
\* _processes, and the await, which returns at once when there is none
NewBatch(s, launched) ==
  Deliver([signal |-> s,
           children |-> [i \in DOMAIN processes |-> BatchChild(processes[i], s, launched[i])],
           errors |-> <<>>,
           outcome |-> "pending"])

\* a runAll() that marks the tasks of the group as running
RunAllMarking(s, launched) ==
  /\ Len(batches) < MaxBatches
  /\ TotalProcs + Len(processes) <= MaxProcs
  /\ batches' = Append(batches, NewBatch(s, launched))
  /\ tasks' = [t \in DOMAIN tasks |->
                IF \E i \in DOMAIN processes : processes[i] = t
                THEN [tasks[t] EXCEPT !.isRunning = TRUE] ELSE tasks[t]]
  /\ UNCHANGED <<calls, processes, aborted>>

\* runAll(signal); launched[i] tells whether spawn() returned for position i
RunAll(s, launched) ==
  /\ Len(batches) < MaxBatches
  /\ TotalProcs + Len(processes) <= MaxProcs
  /\ batches' = Append(batches, NewBatch(s, launched))
  /\ UNCHANGED <<tasks, calls, processes, aborted>>

\* 'close' of the child at position i of runAll() call b
ChildClose(b, i, code) ==
  /\ batches[b].children[i].state = "running"
  /\ batches' = [batches EXCEPT ![b] =
                   Deliver(OnClose([@ EXCEPT !.children[i].state = "exited",
                                             !.children[i].exitCode = code], i, code))]
  /\ UNCHANGED <<tasks, calls, processes, aborted>>

\* 'error' of the child at position i of runAll() call b
BatchChildError(b, i) ==
  /\ batches[b].children[i].state = "running"
  /\ batches' = [batches EXCEPT ![b] =
                   Deliver(RejectAt([@ EXCEPT !.children[i].errored = TRUE], i, ErrorCause))]
  /\ UNCHANGED <<tasks, calls, processes, aborted>>

\* ---------------------------------------------------------- specifications
Next ==
  \/ \E id \in TaskIds, command \in Commands : NewTask(id, command)
  \/ \E t \in DOMAIN tasks : Memoize(t)
  \/ \E t \in DOMAIN tasks, s \in Signals \cup {NoSignal}, launched \in BOOLEAN :
       Run(t, s, launched)
  \/ \E t \in DOMAIN tasks : \E c \in DOMAIN calls[t], st \in ExitStatuses :
       ChildExit(t, c, st[1], st[2])
  \/ \E t \in DOMAIN tasks : \E c \in DOMAIN calls[t] : ChildError(t, c)
  \/ \E s \in Signals : Abort(s)
  \/ \E t \in DOMAIN tasks : AddProcess(t)
  \/ \E id \in TaskIds : RemoveProcess(id)
  \/ \E s \in Signals \cup {NoSignal}, launched \in [DOMAIN processes -> BOOLEAN] :
       RunAll(s, launched)
  \/ \E b \in DOMAIN batches : \E i \in DOMAIN batches[b].children, code \in CloseCodes :
       ChildClose(b, i, code)
  \/ \E b \in DOMAIN batches : \E i \in DOMAIN batches[b].children : BatchChildError(b, i)

Spec == Init /\ [][Next]_vars

\* the tasks alone: no manager
NextTask ==
  \/ \E id \in TaskIds, command \in Commands : NewTask(id, command)
  \/ \E t \in DOMAIN tasks : Memoize(t)
  \/ \E t \in DOMAIN tasks, s \in Signals \cup {NoSignal}, launched \in BOOLEAN :
       Run(t, s, launched)
  \/ \E t \in DOMAIN tasks : \E c \in DOMAIN calls[t], st \in ExitStatuses :
       ChildExit(t, c, st[1], st[2])
  \/ \E t \in DOMAIN tasks : \E c \in DOMAIN calls[t] : ChildError(t, c)
  \/ \E s \in Signals : Abort(s)

SpecTask == Init /\ [][NextTask]_vars

\* the manager alone: new PredictedProcessesManager(processes) for any list of
\* tasks, then runAll() and what follows it; no task is run directly
InitGroup ==
  /\ tasks \in UNION {[1..n -> {NewTaskObject(id, command, FALSE) :
                                  id \in TaskIds, command \in Commands}] :
                      n \in 0..MaxTasks}
  /\ calls = [t \in DOMAIN tasks |-> <<>>]
  /\ processes \in UNION {[1..n -> DOMAIN tasks] : n \in 0..MaxGroup}
  /\ aborted = [s \in Signals |-> FALSE]
  /\ batches = <<>>

NextGroup ==
  \/ \E s \in Signals : Abort(s)
  \/ \E s \in Signals \cup {NoSignal}, launched \in [DOMAIN processes -> BOOLEAN] :
       RunAll(s, launched)
  \/ \E b \in DOMAIN batches : \E i \in DOMAIN batches[b].children, code \in CloseCodes :
       ChildClose(b, i, code)
  \/ \E b \in DOMAIN batches : \E i \in DOMAIN batches[b].children : BatchChildError(b, i)

SpecGroup == InitGroup /\ [][NextGroup]_vars

\* the manager and its tasks: runAll() on any list of tasks, and run() called
\* directly on the tasks
NextMember ==
  \/ \E t \in DOMAIN tasks, s \in Signals \cup {NoSignal}, launched \in BOOLEAN :
       Run(t, s, launched)
  \/ \E t \in DOMAIN tasks : \E c \in DOMAIN calls[t], st \in ExitStatuses :
       ChildExit(t, c, st[1], st[2])
  \/ \E t \in DOMAIN tasks : \E c \in DOMAIN calls[t] : ChildError(t, c)
  \/ \E s \in Signals : Abort(s)
  \/ \E s \in Signals \cup {NoSignal}, launched \in [DOMAIN processes -> BOOLEAN] :
       RunAll(s, launched)
  \/ \E b \in DOMAIN batches : \E i \in DOMAIN batches[b].children, code \in CloseCodes :
       ChildClose(b, i, code)
  \/ \E b \in DOMAIN batches : \E i \in DOMAIN batches[b].children : BatchChildError(b, i)

SpecMember == InitGroup /\ [][NextMember]_vars

\* the operations of the manager, on tasks made as the program goes: the
\* children that runAll() spawns report nothing
NextManager ==
  \/ \E id \in TaskIds, command \in Commands : NewTask(id, command)
  \/ \E t \in DOMAIN tasks : Memoize(t)
  \/ \E t \in DOMAIN tasks : AddProcess(t)
  \/ \E id \in TaskIds : RemoveProcess(id)
  \/ \E s \in Signals \cup {NoSignal}, launched \in [DOMAIN processes -> BOOLEAN] :
       RunAll(s, launched)

SpecManager == Init /\ [][NextManager]_vars

\* ------------------------------------------------- vocabulary of the claims

\* this step is a call of run() on task t
Called(t) == Len(calls'[t]) = Len(calls[t]) + 1

\* the call of run() made by this step on task t
NewCall(t) == calls'[t][Len(calls'[t])]

\* task t has an execution in flight: a call of run() that has not settled
InFlight(t) == \E c \in DOMAIN calls[t] : calls[t][c].outcome.kind = "pending"

\* the failures of an execution
FailureKinds == {"ProcessFailed", "ProcessAborted", "LaunchError"}

\* ---------------------------------------------------------------------- C1
\* C1: when run is called on any task, plain or memoized, with a signal that
\* is already aborted, the call fails with AlreadyCancelled, no child process
\* is spawned, and _isRunning and _childProcess of the task (of every task)
\* are what they were before the call.
C1_AlreadyCancelled ==
  [][\A t \in DOMAIN tasks :
       (/\ Called(t)
        /\ NewCall(t).signal # NoSignal
        /\ aborted[NewCall(t).signal])
       => /\ NewCall(t).outcome = AlreadyCancelled
          /\ NewCall(t).child = "none"
          /\ TotalProcs' = TotalProcs
          /\ tasks' = tasks]_vars

\* a memoized task that is running and whose later call, made with an aborted
\* signal, failed with AlreadyCancelled
C1_Witness ==
  \E t \in DOMAIN tasks :
    /\ tasks[t].memoized
    /\ tasks[t].isRunning
    /\ tasks[t].childProcess # NoChild
    /\ \E c \in DOMAIN calls[t] :
         /\ calls[t][c].outcome = AlreadyCancelled
         /\ calls[t][c].signal \in Signals
         /\ aborted[calls[t][c].signal]

\* ---------------------------------------------------------------------- C2
\* C2: when run is called on a task not made by memoize() that has an
\* execution in flight, with a signal that is not aborted (or none), the call
\* fails with AlreadyRunning, spawns no child, and changes neither the task nor
\* the earlier calls, so the first execution goes on as it would have.
C2_AlreadyRunning ==
  [][\A t \in DOMAIN tasks :
       (/\ ~tasks[t].memoized
        /\ InFlight(t)
        /\ Called(t)
        /\ (NewCall(t).signal = NoSignal \/ ~aborted[NewCall(t).signal]))
       => /\ NewCall(t).outcome = AlreadyRunning
          /\ NewCall(t).child = "none"
          /\ TotalProcs' = TotalProcs
          /\ tasks' = tasks
          /\ SubSeq(calls'[t], 1, Len(calls[t])) = calls[t]]_vars

\* a plain task whose second call failed with AlreadyRunning and whose first
\* call then completed successfully
C2_Witness ==
  \E t \in DOMAIN tasks :
    /\ ~tasks[t].memoized
    /\ Len(calls[t]) = 2
    /\ calls[t][1].outcome = Success
    /\ calls[t][2].outcome = AlreadyRunning

\* ---------------------------------------------------------------------- C3
\* C3: at the moment a call of run() settles, whatever the outcome (success,
\* ProcessFailed, ProcessAborted, LaunchError), the task has _isRunning false,
\* _childProcess null and no abort listener registered for that call.
C3_CleanupOnEveryOutcome ==
  [][\A t \in DOMAIN tasks : \A c \in DOMAIN calls[t] :
       (/\ calls[t][c].outcome.kind = "pending"
        /\ calls'[t][c].outcome.kind # "pending")
       => /\ ~tasks'[t].isRunning
          /\ tasks'[t].childProcess = NoChild
          /\ ~calls'[t][c].onAbort]_vars

\* ---------------------------------------------------------------------- C4
\* C4: an 'exit' that carries a non-zero exit code and no signal makes the
\* pending call fail with ProcessFailed carrying that exit code.
C4_NonZeroExitIsProcessFailed ==
  [][\A t \in DOMAIN tasks : \A c \in DOMAIN calls[t] : \A code \in ExitCodes \ {0} :
       (/\ calls[t][c].outcome.kind = "pending"
        /\ ChildExit(t, c, code, NullSig))
       => calls'[t][c].outcome = ProcessFailed(code)]_vars

\* ---------------------------------------------------------------------- C5
\* C5: an 'exit' that reports a terminating signal, whichever it is, or that
\* carries neither an exit code nor a signal, makes the pending call fail with
\* ProcessAborted.
C5_SignalExitIsProcessAborted ==
  [][\A t \in DOMAIN tasks : \A c \in DOMAIN calls[t] :
     \A sg \in ChildSignals \cup {NullSig} :
       (/\ calls[t][c].outcome.kind = "pending"
        /\ ChildExit(t, c, NullCode, sg))
       => calls'[t][c].outcome.kind = "ProcessAborted"]_vars

\* ---------------------------------------------------------------------- C6
\* C6: when the signal passed to run() is aborted while the execution is in
\* flight, the child has been sent a termination request; such a call never
\* completes successfully, and once the child has exited the call has failed
\* with ProcessAborted.
C6_AbortedRunNeverSucceeds ==
  \A t \in DOMAIN tasks : \A c \in DOMAIN calls[t] :
    /\ (/\ calls[t][c].signal # NoSignal
        /\ aborted[calls[t][c].signal]
        /\ calls[t][c].outcome.kind = "pending")
       => calls[t][c].killed = "SIGABRT"
    /\ calls[t][c].killed = "SIGABRT" => calls[t][c].outcome.kind # "success"
    /\ (/\ calls[t][c].killed = "SIGABRT"
        /\ calls[t][c].child = "exited"
        /\ calls[t][c].outcome.kind # "LaunchError")
       => calls[t][c].outcome.kind = "ProcessAborted"

\* ---------------------------------------------------------------------- C7
\* C7: on a memoized task, a call of run() with key K made while a call with
\* the same key is in flight spawns no child and does not fail with
\* AlreadyRunning: it waits for the execution in flight; and the calls that
\* wait for one execution settle together with the same outcome.
C7_SharedExecution ==
  [][\A t \in DOMAIN tasks : \A s \in Signals \cup {NoSignal} :
       /\ (/\ tasks[t].memoized
           /\ \E c \in DOMAIN calls[t] :
                calls[t][c].signal = s /\ calls[t][c].outcome.kind = "pending"
           /\ Called(t)
           /\ NewCall(t).signal = s
           /\ (s = NoSignal \/ ~aborted[s]))
          => /\ NewCall(t).outcome.kind = "pending"
             /\ NewCall(t).child = "none"
             /\ TotalProcs' = TotalProcs
       /\ tasks[t].memoized
          => \A c, d \in DOMAIN calls[t] :
               (/\ calls[t][c].signal = s /\ calls[t][c].outcome.kind = "pending"
                /\ calls[t][d].signal = s /\ calls[t][d].outcome.kind = "pending")
               => calls'[t][c].outcome = calls'[t][d].outcome]_vars

\* ---------------------------------------------------------------------- C8
\* C8: on a memoized task, once a call of run() with key K (a signal, or no
\* signal) has completed successfully, a later call with the same key
\* completes successfully and spawns no child.
C8_SuccessIsCached ==
  [][\A t \in DOMAIN tasks : \A s \in Signals \cup {NoSignal} :
       (/\ tasks[t].memoized
        /\ \E c \in DOMAIN calls[t] :
             calls[t][c].signal = s /\ calls[t][c].outcome = Success
        /\ Called(t)
        /\ NewCall(t).signal = s
        /\ (s = NoSignal \/ ~aborted[s]))
       => /\ NewCall(t).outcome = Success
          /\ NewCall(t).child = "none"
          /\ TotalProcs' = TotalProcs]_vars

\* ---------------------------------------------------------------------- C9
\* C9: on a memoized task with no call in flight, when the latest call of
\* run() with key K has failed (ProcessFailed, ProcessAborted or LaunchError)
\* and K is not aborted, the next call with key K spawns a fresh child and
\* waits for it.
C9_FailureIsNotCached ==
  [][\A t \in DOMAIN tasks : \A s \in Signals \cup {NoSignal} :
       (/\ tasks[t].memoized
        /\ ~InFlight(t)
        /\ \E c \in DOMAIN calls[t] :
             /\ calls[t][c].signal = s
             /\ calls[t][c].outcome.kind \in FailureKinds
             /\ \A d \in DOMAIN calls[t] : d > c => calls[t][d].signal # s
        /\ Called(t)
        /\ NewCall(t).signal = s
        /\ (s = NoSignal \/ ~aborted[s]))
       => /\ NewCall(t).outcome = Pending
          /\ NewCall(t).child = "running"
          /\ TotalProcs' = TotalProcs + 1]_vars

\* --------------------------------------------------------------------- C10
\* a child of runAll() has reached a terminal state: 'close' or 'error'
Terminal(child) == child.state = "exited" \/ child.errored

Delivered(b) ==
  /\ b \in DOMAIN batches => batches[b].outcome = "pending"
  /\ batches'[b].outcome # "pending"

\* the process of a child of runAll() failed or was aborted: it reported
\* 'error', it closed with an exit code other than 0, or it was killed by the
\* abort listener before it closed
Failed(child) ==
  \/ child.errored
  \/ child.state = "exited" /\ child.exitCode # 0
  \/ child.state = "running" /\ child.killed = "SIGTERM"

\* C11: when runAll() delivers its outcome, the outcome is success exactly
\* when every child closed with exit code 0 without 'error' or abort, and
\* BatchFailed otherwise; errors then holds as many causes as there are
\* children that failed or were aborted, the promises of these children are
\* the rejected ones, and the children that closed with 0 contributed none.
C11_OneCausePerFailure ==
  [][\A b \in DOMAIN batches' :
       Delivered(b)
       => LET ch == batches'[b].children
              failed == {i \in DOMAIN ch : Failed(ch[i])}
          IN /\ batches'[b].outcome = "success"
                <=> \A i \in DOMAIN ch :
                      ch[i].state = "exited" /\ ch[i].exitCode = 0 /\ ~ch[i].errored
             /\ batches'[b].outcome = "BatchFailed" <=> failed # {}
             /\ Len(batches'[b].errors) = Cardinality(failed)
             /\ \A i \in DOMAIN ch : ch[i].promise = "rejected" <=> i \in failed]_vars

\* runAll() has failed with one cause: its first child closed with 0, its
\* second child closed with a non-zero code
C11_Witness ==
  \E b \in DOMAIN batches :
    /\ batches[b].outcome = "BatchFailed"
    /\ Len(batches[b].children) = 2
    /\ batches[b].children[1].state = "exited"
    /\ batches[b].children[1].exitCode = 0
    /\ batches[b].children[1].promise = "resolved"
    /\ batches[b].children[2].state = "exited"
    /\ batches[b].children[2].exitCode = 1
    /\ Len(batches[b].errors) = 1
    /\ batches[b].errors[1].kind = "exit"

\* --------------------------------------------------------------------- C12
\* C12: every cause held by a BatchFailed names, by its id, a task of the
\* batch whose process failed, whatever the kind of failure: a non-zero exit,
\* an abort of the signal, or an 'error' of the child.
C12_CausesIdentifyTask ==
  \A b \in DOMAIN batches :
    batches[b].outcome = "BatchFailed"
    => \A k \in DOMAIN batches[b].errors :
         \E i \in DOMAIN batches[b].children :
           /\ batches[b].children[i].promise = "rejected"
           /\ batches[b].errors[k].task = tasks[batches[b].children[i].task].id

\* --------------------------------------------------------------------- C13
\* C13: when the signal passed to runAll() is aborted while runAll() has not
\* delivered its outcome, kill() is called on every child that has not
\* closed; every child that had closed keeps the promise it had, so that the
\* only causes added are one abort cause per child that was still pending,
\* and a child that had closed with 0 adds none.
C13_AbortKillsRunningChildren ==
  [][\A b \in DOMAIN batches : \A s \in Signals :
       (/\ batches[b].signal = s
        /\ batches[b].outcome = "pending"
        /\ ~aborted[s]
        /\ aborted'[s])
       => LET ch == batches[b].children
              after == batches'[b].children
              errors == batches[b].errors
              added == {i \in DOMAIN ch : ch[i].state = "running" /\ ch[i].promise = "pending"}
          IN /\ \A i \in DOMAIN ch : ch[i].state = "running" => after[i].killed = "SIGTERM"
             /\ \A i \in DOMAIN ch : ch[i].state = "exited" => after[i].promise = ch[i].promise
             /\ Len(batches'[b].errors) = Len(errors) + Cardinality(added)
             /\ SubSeq(batches'[b].errors, 1, Len(errors)) = errors
             /\ \A k \in DOMAIN batches'[b].errors :
                  k > Len(errors) => batches'[b].errors[k] = AbortCause]_vars

\* the signal was aborted after the first child had closed with 0 and while
\* the second child was running: runAll() has failed with the one abort cause
\* of the second child
C13_Witness ==
  \E b \in DOMAIN batches :
    /\ batches[b].signal \in Signals
    /\ aborted[batches[b].signal]
    /\ Len(batches[b].children) = 2
    /\ batches[b].children[1].state = "exited"
    /\ batches[b].children[1].exitCode = 0
    /\ batches[b].children[1].promise = "resolved"
    /\ batches[b].children[2].state = "running"
    /\ batches[b].children[2].killed = "SIGTERM"
    /\ batches[b].children[2].promise = "rejected"
    /\ batches[b].errors = <<AbortCause>>
    /\ batches[b].outcome = "BatchFailed"

\* --------------------------------------------------------------------- C14
\* C14: in every state, a task has at most one execution in flight (at most
\* one child that has not exited, at most one call that has not settled) and
\* its _childProcess is set exactly when its _isRunning is true.
C14_HandleIffRunning ==
  \A t \in DOMAIN tasks :
    /\ Cardinality({c \in DOMAIN calls[t] : calls[t][c].child = "running"}) <= 1
    /\ Cardinality({c \in DOMAIN calls[t] : calls[t][c].outcome.kind = "pending"}) <= 1
    /\ tasks[t].childProcess # NoChild <=> tasks[t].isRunning

C16_OneEventActedUpon ==
  [][\A t \in DOMAIN tasks : \A c \in DOMAIN calls[t] :
       (/\ calls[t][c].child # "none"
        /\ calls[t][c].outcome.kind # "pending"
        /\ \/ calls'[t][c].child # calls[t][c].child
           \/ ChildError(t, c)
           \/ /\ calls[t][c].signal # NoSignal
              /\ ~aborted[calls[t][c].signal]
              /\ aborted'[calls[t][c].signal])
       => /\ calls'[t][c].outcome = calls[t][c].outcome
          /\ calls'[t][c].killed = calls[t][c].killed
          /\ tasks'[t] = tasks[t]]_vars

\* --------------------------------------------------------------------- C17
\* C17: a call of runAll() calls spawn() once for each position of
\* _processes as it is at the call, a task listed twice being spawned twice,
\* and changes no field of any task and no call of run(); so run() called on
\* a task of a batch in flight, when run() has not been called on that task
\* before, does not fail with AlreadyRunning.
C17_RunAllLeavesTasksAlone ==
  [][/\ \A b \in DOMAIN batches' :
          b \notin DOMAIN batches
          => /\ Len(batches'[b].children) = Len(processes)
             /\ \A i \in DOMAIN processes : batches'[b].children[i].task = processes[i]
             /\ tasks' = tasks
             /\ calls' = calls
     /\ \A t \in DOMAIN tasks :
          (/\ Called(t)
           /\ \A c \in DOMAIN calls[t] : calls[t][c].outcome = AlreadyCancelled
           /\ \E b \in DOMAIN batches :
                /\ batches[b].outcome = "pending"
                /\ \E i \in DOMAIN batches[b].children : batches[b].children[i].task = t)
          => NewCall(t).outcome # AlreadyRunning]_vars

\* runAll() has spawned a child for a task and has not delivered its
\* outcome; run() called on that task has spawned another child and is pending
C17_Witness ==
  \E b \in DOMAIN batches : \E t \in DOMAIN tasks :
    /\ batches[b].outcome = "pending"
    /\ \E i \in DOMAIN batches[b].children :
         batches[b].children[i].task = t /\ batches[b].children[i].state = "running"
    /\ tasks[t].isRunning
    /\ Len(calls[t]) = 1
    /\ calls[t][1].outcome = Pending
    /\ calls[t][1].child = "running"

\* --------------------------------------------------------------------- C18
\* C18: the abort listener that runAll() registers for a child is removed
\* when the child reports 'close' or 'error'; so a child that has closed is
\* never sent a kill(), and once runAll() has delivered its outcome with
\* every child closed, no listener of that call is left on the signal.
C18_ListenersUnregistered ==
  \A b \in DOMAIN batches : \A i \in DOMAIN batches[b].children :
    Terminal(batches[b].children[i]) => ~batches[b].children[i].onAbort

\* --------------------------------------------------------------------- C19
\* the sequence seq without its elements whose task has the id
RECURSIVE WithoutId(_, _)
WithoutId(seq, id) ==
  IF seq = <<>> THEN <<>>
  ELSE IF tasks[Head(seq)].id = id THEN WithoutId(Tail(seq), id)
  ELSE <<Head(seq)>> \o WithoutId(Tail(seq), id)

====
